---- MODULE Spec2Model ----
(***************************************************************************)
(* Model of the Fast Pair discovery utility (fastpair/rust).               *)
(*                                                                         *)
(*   - bluetooth/windows/adapter.rs : BleAdapter (start_scan, stop_scan,   *)
(*     next_device), the received and stopped callbacks of the watcher and *)
(*     the bounded channel between them and the consumer;                  *)
(*   - main.rs : the discovery loop (filter, dedup, catalogue) and the     *)
(*     input thread that indexes the catalogue under the shared mutex.     *)
(*                                                                         *)
(*   - bluetooth/windows/device.rs : ClassicDevice::pair with its          *)
(*     challenge handler, and the Device trait of both device types;       *)
(*   - bluetooth/windows/address.rs : the address type conversion.         *)
(*                                                                         *)
(* Five specifications:                                                    *)
(*   Spec     : the program main.rs runs, a pairing attempt taken as one   *)
(*              step of the input thread that holds the catalogue's lock;  *)
(*   SpecApi  : the Adapter trait driven by an arbitrary caller            *)
(*              (start_scan / stop_scan / next_device in any order);       *)
(*   SpecPair : the input thread's pairing attempts step by step, on a     *)
(*              catalogue the discovery loop has filled;                   *)
(*   SpecDev  : a caller of the Device trait and the address conversion.   *)
(*   SpecStop : a consumer that keeps awaiting next_device on a scan the   *)
(*              platform may stop, under fair scheduling.                  *)
(***************************************************************************)
EXTENDS Integers, Sequences, FiniteSets, TLC

\* ------------------------------------------------------------------------
\* Bounds of the model
\* ------------------------------------------------------------------------

\* Buffer argument of futures::channel::mpsc::channel (16 in the source,
\* scaled down; every formula is stated in terms of ChannelBuffer).
ChannelBuffer == 1

\* Number of watchers start_scan may create in one run.
MaxScans == 2

\* Number of received events the platform raises in one run of main.
MaxEvents == 3

\* Number of received events the platform raises while an arbitrary caller
\* drives the adapter.
MaxApiEvents == 1

\* Number of platform threads that may run a received callback concurrently.
MaxCallbacks == 1

\* Number of distinct raw address values on the air.
MaxAddr == 1

\* Number of devices in the catalogue when the pairing attempts are studied.
MaxCatalogue == 2

\* Number of challenges the platform raises during one pairing request.
MaxChallenges == 1

\* ------------------------------------------------------------------------
\* Program constants
\* ------------------------------------------------------------------------

\* main.rs: `if uuid == 0x2cfe` (0x2cfe = 11518)
FastPairUuid == 11518

\* Some other 16 bit service UUID.
OtherUuid == FastPairUuid + 1

Scans == 1..MaxScans
Callbacks == 1..MaxCallbacks

\* ------------------------------------------------------------------------
\* Advertisement events (BluetoothLEAdvertisementReceivedEventArgs)
\* ------------------------------------------------------------------------

\* Well-formed advertisements of Fast Pair devices: the 0x2cfe record comes
\* after another one.
FastPairEvents ==
    [adv : {"ConnectableUndirected"}, kind : {"Public", "Random"},
     addr : 1..MaxAddr, sd : {<<OtherUuid, FastPairUuid>>}]

\* Well-formed advertisements with no service data, or only another UUID.
OtherEvents ==
    [adv : {"ConnectableUndirected"}, kind : {"Public"},
     addr : {1}, sd : {<<>>, <<OtherUuid>>}]

\* Events every getter of which succeeds and whose address type is valid.
WellFormedEvents == FastPairEvents \cup OtherEvents

\* Advertisements a device cannot be paired through.
NonConnectableEvents ==
    [adv : {"NonConnectableUndirected"}, kind : {"Public"},
     addr : {1}, sd : {<<FastPairUuid>>}]

\* Events whose advertisement type cannot be read (adv "Error"), whose
\* address type is Unspecified, or whose address cannot be read (addr 0).
MalformedEvents ==
    [adv : {"Error"}, kind : {"Public"}, addr : {1}, sd : {<<FastPairUuid>>}]
    \cup
    [adv : {"ConnectableUndirected"}, kind : {"Unspecified"},
     addr : {1}, sd : {<<FastPairUuid>>}]
    \cup
    [adv : {"ConnectableUndirected"}, kind : {"Public"},
     addr : {0}, sd : {<<FastPairUuid>>}]

Events == WellFormedEvents \cup NonConnectableEvents \cup MalformedEvents

NoEvent == [adv |-> "None", kind |-> "None", addr |-> 0, sd |-> <<>>]

\* BleDevice: its address, its service data, and (not a field of the struct)
\* the advertisement type of the event it was made from.
NoDevice == [addr |-> [value |-> 0, kind |-> "None"], sd |-> <<>>, adv |-> "None"]

VARIABLES
    pc,          \* position of the task that owns the adapter
    listener,    \* BleAdapter.listener: 0 is None, w is Some(listener of watcher w)
    nextScan,    \* number of watchers created so far
    wstatus,     \* per watcher: "Created", "Started", "Stopping", "Stopped"
    chan,        \* per watcher: messages queued in the mpsc channel
    parked,      \* per watcher: the Sender's is_parked flag
    rx,          \* per watcher: Receiver "none", "open", "terminated", "dropped"
    strong,      \* per watcher: stopped_handler's Option<Arc<Mutex<Sender>>> is Some
    cb,          \* per platform thread: the received callback it is running
    nrecv,       \* number of received events raised so far
    ignored,     \* history: a received callback found the sender gone and returned
    ret,         \* what the last Adapter call returned
    tick,        \* flips whenever a call of the Adapter or Device API returns
    log,         \* kinds of error!/warn! diagnostics emitted so far
    addr_set,    \* main: HashSet<Address>
    device_vec,  \* main: Arc<Mutex<Vec<BleDevice>>>, the catalogue
    counter,     \* main: counter: u32
    lock,        \* holder of device_vec's mutex: "free" or "input"
    ipc,         \* position of the input thread
    sel,         \* index the input thread read (0 between two reads)
    caps,        \* what the platform's Bluetooth adapter supports
    pair,        \* the pairing attempt in flight on the input thread
    bonded,      \* Classic addresses the platform holds as paired
    verdict,     \* history: how the last pairing attempt ended
    arg,         \* the values a caller of the Device API holds
    seen,        \* history: devices next_device handed to the discovery loop
    stopped,     \* history: watchers whose stop_scan has returned
    ended        \* history: watchers for which next_device reported the stream's None

adapterVars == <<listener, nextScan, wstatus, chan, parked, rx, strong>>
envVars == <<nrecv, ignored, caps>>
mainVars == <<addr_set, device_vec, counter, seen>>
inputVars == <<lock, ipc, sel>>
deviceVars == <<pair, bonded, verdict, arg>>
vars == <<pc, listener, nextScan, wstatus, chan, parked, rx, strong, cb, nrecv, ignored,
          caps, ret, tick, log, addr_set, device_vec, counter, lock, ipc, sel,
          pair, bonded, verdict, arg, seen, stopped, ended>>

IdleCallback == [pc |-> "idle", w |-> 0, ev |-> NoEvent]

\* No call of ClassicDevice::pair is in progress.
NoPairing == [addr |-> 0, handler |-> FALSE, requests |-> 0, asked |-> <<>>]

\* No pairing attempt has ended yet.
NoVerdict ==
    [res |-> "none", cause |-> "none", status |-> "none", printed |-> "none",
     handler |-> FALSE, requests |-> 0, asked |-> <<>>]

\* The caller of the Device API holds nothing.
NoArg == [kind |-> "None", variant |-> "None", dev |-> NoDevice]

\* An adapter that supports Bluetooth LE and the central role.
FullCaps == [le |-> TRUE, central |-> TRUE]

Ret(op, res, scan, dev) == [op |-> op, res |-> res, scan |-> scan, dev |-> dev]

\* Nothing has run yet: no watcher, no catalogue, no thread, no attempt.
InitIdle ==
    /\ listener = 0
    /\ nextScan = 0
    /\ wstatus = [w \in Scans |-> "Created"]
    /\ chan = [w \in Scans |-> <<>>]
    /\ parked = [w \in Scans |-> FALSE]
    /\ rx = [w \in Scans |-> "none"]
    /\ strong = [w \in Scans |-> FALSE]
    /\ cb = [t \in Callbacks |-> IdleCallback]
    /\ nrecv = 0
    /\ ignored = FALSE
    /\ ret = Ret("none", "none", 0, NoDevice)
    /\ tick = FALSE
    /\ log = {}
    /\ addr_set = {}
    /\ device_vec = <<>>
    /\ counter = 0
    /\ lock = "free"
    /\ ipc = "unspawned"
    /\ sel = 0
    /\ pair = NoPairing
    /\ bonded = {}
    /\ verdict = NoVerdict
    /\ seen = <<>>
    /\ stopped = {}
    /\ ended = {}

InitCommon == InitIdle /\ arg = NoArg

\* main.rs: the state at the entry of `run`, on a machine whose adapter may
\* lack Bluetooth LE or the central role.
Init ==
    /\ InitCommon
    /\ pc = "default_adapter"
    /\ caps \in [le : BOOLEAN, central : BOOLEAN]

\* A caller that holds a freshly constructed BleAdapter (listener: None).
InitApi == InitCommon /\ pc = "caller" /\ caps = FullCaps

\* ------------------------------------------------------------------------
\* The channel (futures::channel::mpsc, one Sender behind Arc<Mutex<..>>)
\* ------------------------------------------------------------------------

\* Number of strong references to the Arc that holds the Sender: the one the
\* stopped handler owns, and one per received callback that has upgraded.
StrongCount(w) ==
    (IF strong[w] THEN 1 ELSE 0)
    + Cardinality({t \in Callbacks : cb[t].pc = "upgraded" /\ cb[t].w = w})

\* The Sender has been dropped: the producer side of the channel is closed.
ProducerClosed(w) == StrongCount(w) = 0

\* Weak::upgrade succeeds while a strong reference exists.
CanUpgrade(w) == StrongCount(w) > 0

\* A try_send that ignores the parked flag (an unbounded sender).
TrySend_Unbounded(w) ==
    IF rx[w] # "open" THEN "Disconnected" ELSE "Ok"

\* Sender::try_send: "Disconnected" once the receiver is gone, "Full" while
\* the sender is parked, "Ok" otherwise.
TrySend(w) ==
    IF rx[w] # "open" THEN "Disconnected"
    ELSE IF parked[w] THEN "Full"
    ELSE "Ok"

\* do_send_b: the sender parks itself when the number of queued messages,
\* counting the new one, exceeds the buffer.
ParkAfterSend(w) == Len(chan[w]) + 1 > ChannelBuffer

\* A receiver that reports None as soon as the stopped handler has dropped
\* its sender, before draining the queue, and that is not fused.
StreamNext_CloseBeforeDrain(w) ==
    IF ~strong[w] /\ rx[w] = "open" THEN "none"
    ELSE IF chan[w] # <<>> THEN "item"
    ELSE IF ProducerClosed(w) THEN "none"
    ELSE "pending"

\* Receiver::poll_next: "item" when a message is queued, "none" when the
\* receiver has terminated or the queue is empty and every sender is gone,
\* "pending" otherwise.
StreamNext(w) ==
    IF rx[w] = "terminated" THEN "none"
    ELSE IF chan[w] # <<>> THEN "item"
    ELSE IF ProducerClosed(w) THEN "none"
    ELSE "pending"

\* ------------------------------------------------------------------------
\* Address conversion (bluetooth/windows/address.rs)
\* ------------------------------------------------------------------------

\* A conversion that takes any value other than Random as Public.
BleAddressKind_try_from_DefaultsPublic(kind) ==
    CASE kind = "Random" -> [ok |-> TRUE, kind |-> "Random"]
      [] OTHER -> [ok |-> TRUE, kind |-> "Public"]

\* TryFrom<BluetoothAddressType> for BleAddressKind
BleAddressKind_try_from(kind) ==
    CASE kind = "Public" -> [ok |-> TRUE, kind |-> "Public"]
      [] kind = "Random" -> [ok |-> TRUE, kind |-> "Random"]
      [] kind = "Unspecified" -> [ok |-> FALSE, kind |-> "None"]
      [] OTHER -> [ok |-> FALSE, kind |-> "None"]

\* BleAddress::new(addr, kind)
BleAddress_new(addr, kind) == [value |-> addr, kind |-> kind]

\* ------------------------------------------------------------------------
\* BleAdapter (bluetooth/windows/adapter.rs)
\* ------------------------------------------------------------------------

\* Dropping an AdListener drops its Receiver: the channel is closed from the
\* receiving side, the queued messages are released and the sender unparked.
DropListener(f, w, val) == IF w = 0 THEN f ELSE [f EXCEPT ![w] = val]

\* The watcher itself outlives the handle the listener held: the platform
\* goes on raising its events until it stops.
\*
\* start_scan: `platformOk` is whether every fallible platform call of it
\* (lines 99, 107-108, 161-163) succeeds.  There is no check of
\* self.listener: a new watcher and channel are made and the field is
\* overwritten, which drops the previous listener.
start_scan(platformOk) ==
    IF platformOk
    THEN /\ nextScan' = nextScan + 1
         /\ wstatus' = [wstatus EXCEPT ![nextScan + 1] = "Started"]
         /\ strong' = [strong EXCEPT ![nextScan + 1] = TRUE]
         /\ rx' = [DropListener(rx, listener, "dropped") EXCEPT ![nextScan + 1] = "open"]
         /\ chan' = DropListener(chan, listener, <<>>)
         /\ parked' = DropListener(parked, listener, FALSE)
         /\ listener' = nextScan + 1
         /\ ret' = Ret("start_scan", "Ok", nextScan + 1, NoDevice)
    ELSE /\ ret' = Ret("start_scan", "PlatformError", listener, NoDevice)
         /\ UNCHANGED adapterVars

\* What watcher.Stop() does to the watcher's status.
WatcherStop(status, stopOk) ==
    IF stopOk /\ status = "Started" THEN "Stopping" ELSE status

\* A stop_scan that borrows the listener instead of taking it: the receiver
\* stays in the adapter after Stop().
stop_scan_KeepsListener(stopOk) ==
    IF listener # 0
    THEN /\ wstatus' = [wstatus EXCEPT ![listener] = WatcherStop(@, stopOk)]
         /\ stopped' = stopped \cup {listener}
         /\ ret' = Ret("stop_scan", IF stopOk THEN "Ok" ELSE "PlatformError",
                       listener, NoDevice)
         /\ UNCHANGED <<listener, rx, chan, parked, nextScan, strong>>
    ELSE /\ ret' = Ret("stop_scan", "NotScanning", 0, NoDevice)
         /\ UNCHANGED <<adapterVars, stopped>>

\* A stop_scan that is a silent no-op when there is no listener.
stop_scan_SilentNoOp(stopOk) ==
    IF listener # 0
    THEN /\ listener' = 0
         /\ wstatus' = [wstatus EXCEPT ![listener] = WatcherStop(@, stopOk)]
         /\ rx' = [rx EXCEPT ![listener] = "dropped"]
         /\ chan' = [chan EXCEPT ![listener] = <<>>]
         /\ parked' = [parked EXCEPT ![listener] = FALSE]
         /\ stopped' = stopped \cup {listener}
         /\ ret' = Ret("stop_scan", IF stopOk THEN "Ok" ELSE "PlatformError",
                       listener, NoDevice)
         /\ UNCHANGED <<nextScan, strong>>
    ELSE /\ ret' = Ret("stop_scan", "Ok", 0, NoDevice)
         /\ UNCHANGED <<adapterVars, stopped>>

\* stop_scan: self.listener.take(), then Stop() on the taken watcher; the
\* taken listener (watcher handle and receiver) is dropped on return.
stop_scan(stopOk) ==
    IF listener # 0
    THEN /\ listener' = 0
         /\ wstatus' = [wstatus EXCEPT ![listener] = WatcherStop(@, stopOk)]
         /\ rx' = [rx EXCEPT ![listener] = "dropped"]
         /\ chan' = [chan EXCEPT ![listener] = <<>>]
         /\ parked' = [parked EXCEPT ![listener] = FALSE]
         /\ stopped' = stopped \cup {listener}
         /\ ret' = Ret("stop_scan", IF stopOk THEN "Ok" ELSE "PlatformError",
                       listener, NoDevice)
         /\ UNCHANGED <<nextScan, strong>>
    ELSE /\ ret' = Ret("stop_scan", "NotScanning", 0, NoDevice)
         /\ UNCHANGED <<adapterVars, stopped>>

\* A loop body in which a failed BleDevice::new returns its error.
Classify_NewFailureIsError(ev, newOk) ==
    IF ev.adv = "Error" THEN "Error"
    ELSE IF ev.adv = "NonConnectableUndirected" THEN "Skip"
    ELSE IF ev.addr = 0 THEN "Error"
    ELSE IF ~BleAddressKind_try_from(ev.kind).ok THEN "Error"
    ELSE IF newOk THEN "Device"
    ELSE "Error"

\* The body of next_device's loop for one event: "Error" when a `?` returns
\* from next_device, "Skip" when the loop goes round silently, "SkipLogged"
\* when BleDevice::new failed, "Device" when it breaks with a device.
Classify(ev, newOk) ==
    IF ev.adv = "Error" THEN "Error"
    ELSE IF ev.adv = "NonConnectableUndirected" THEN "Skip"
    ELSE IF ev.addr = 0 THEN "Error"
    ELSE IF ~BleAddressKind_try_from(ev.kind).ok THEN "Error"
    ELSE IF newOk THEN "Device"
    ELSE "SkipLogged"

\* BleDevice::new(addr, service_data) for the event's address; the service
\* data are those of the advertisement the device is made from.
BleDevice_new(ev) ==
    [addr |-> BleAddress_new(ev.addr, BleAddressKind_try_from(ev.kind).kind),
     sd |-> ev.sd, adv |-> ev.adv]

\* One resumption of next_device: either it returns (pc becomes pcOk or
\* pcErr), or its loop goes round and it stays at stream.next().await.
NextDeviceStep(pcOk, pcErr) ==
    /\ pc = "next_device"
    /\ IF listener = 0
       THEN /\ ret' = Ret("next_device", "NotScanning", 0, NoDevice)
            /\ tick' = ~tick
            /\ pc' = pcErr
            /\ UNCHANGED <<adapterVars, log, ended>>
       ELSE LET w == listener IN
            /\ StreamNext(w) # "pending"
            /\ IF StreamNext(w) = "none"
               THEN /\ rx' = [rx EXCEPT ![w] = "terminated"]
                    /\ ret' = Ret("next_device", "StreamNone", w, NoDevice)
                    /\ tick' = ~tick
                    /\ ended' = ended \cup {w}
                    /\ pc' = pcErr
                    /\ UNCHANGED <<listener, nextScan, wstatus, chan, parked, strong, log>>
               ELSE \E newOk \in BOOLEAN :
                    LET ev == Head(chan[w])
                        c == Classify(ev, newOk) IN
                    /\ chan' = [chan EXCEPT ![w] = Tail(@)]
                    /\ parked' = [parked EXCEPT ![w] = FALSE]
                    /\ log' = IF c = "SkipLogged"
                              THEN log \cup {"create_device_failed"} ELSE log
                    /\ CASE c = "Device" ->
                              /\ ret' = Ret("next_device", "Device", w, BleDevice_new(ev))
                              /\ tick' = ~tick
                              /\ pc' = pcOk
                         [] c = "Error" ->
                              /\ ret' = Ret("next_device", "EventError", w, NoDevice)
                              /\ tick' = ~tick
                              /\ pc' = pcErr
                         [] OTHER ->
                              UNCHANGED <<ret, tick, pc>>
                    /\ UNCHANGED <<listener, nextScan, wstatus, rx, strong, ended>>

\* ------------------------------------------------------------------------
\* The watcher's callbacks, run by the platform on its own threads
\* ------------------------------------------------------------------------

\* The platform raises a received event on watcher w: thread t enters
\* received_handler.  A started watcher raises them; one may also arrive
\* late, after the stopped event.
\* Up to weak_sender.upgrade(): Some leaves the callback holding a strong
\* reference, None ends it with Ok(()) and nothing sent.
ReceivedBegin(t, w, ev) ==
    /\ cb[t].pc = "idle"
    /\ w <= nextScan
    /\ IF CanUpgrade(w)
       THEN /\ cb' = [cb EXCEPT ![t] = [pc |-> "upgraded", w |-> w, ev |-> ev]]
            /\ ignored' = ignored
       ELSE /\ cb' = cb
            /\ ignored' = TRUE
    /\ nrecv' = nrecv + 1
    /\ UNCHANGED <<pc, adapterVars, caps, ret, tick, log, mainVars, inputVars,
                   deviceVars, stopped, ended>>

\* The platform raises one more received event, up to `limit` in a run.
Received(limit) ==
    /\ nrecv < limit
    /\ \E t \in Callbacks, w \in Scans, ev \in Events : ReceivedBegin(t, w, ev)

\* received_handler: sender.lock().unwrap().try_send(event_args.clone()),
\* error!() on failure, then the upgraded Arc is dropped and Ok(()) returned.
ReceivedSend(t) ==
    /\ cb[t].pc = "upgraded"
    /\ LET w == cb[t].w
           r == TrySend(w) IN
       /\ IF r = "Ok"
          THEN /\ chan' = [chan EXCEPT ![w] = Append(@, cb[t].ev)]
               /\ parked' = [parked EXCEPT ![w] = ParkAfterSend(w)]
               /\ log' = log
          ELSE /\ log' = log \cup {IF r = "Full" THEN "send_error_full"
                                   ELSE "send_error_disconnected"}
               /\ UNCHANGED <<chan, parked>>
    /\ cb' = [cb EXCEPT ![t] = IdleCallback]
    /\ UNCHANGED <<pc, listener, nextScan, wstatus, rx, strong, envVars, ret, tick,
                   mainVars, inputVars, deviceVars, stopped, ended>>

\* A stopped_handler that leaves its sender in place (no `sender.take()`).
StoppedHandler_KeepsSender(w) ==
    /\ wstatus[w] \in {"Started", "Stopping"}
    /\ wstatus' = [wstatus EXCEPT ![w] = "Stopped"]
    /\ UNCHANGED <<pc, listener, nextScan, chan, parked, rx, strong, cb, envVars, ret,
                   tick, log, mainVars, inputVars, deviceVars, stopped, ended>>

\* The platform raises the stopped event of watcher w, after Stop() or when
\* it aborts the scan itself: stopped_handler takes and drops its sender.
StoppedHandler(w) ==
    /\ wstatus[w] \in {"Started", "Stopping"}
    /\ wstatus' = [wstatus EXCEPT ![w] = "Stopped"]
    /\ strong' = [strong EXCEPT ![w] = FALSE]
    /\ UNCHANGED <<pc, listener, nextScan, chan, parked, rx, cb, envVars, ret, tick, log,
                   mainVars, inputVars, deviceVars, stopped, ended>>

\* ------------------------------------------------------------------------
\* main.rs: the discovery loop
\* ------------------------------------------------------------------------

\* A constructor that only asks for Bluetooth LE.
default_adapter_LeOnly(le, central) == le

\* BleAdapter::default: an error unless the adapter supports both Bluetooth
\* LE and the central role; `?` in main then ends `run` before start_scan.
default_adapter(le, central) == le /\ central

\* bluetooth::default_adapter().await?: `platformOk` is whether
\* GetDefaultAsync and the two capability getters succeed.
MainDefaultAdapter ==
    /\ pc = "default_adapter"
    /\ \E platformOk \in BOOLEAN :
         LET ok == platformOk /\ default_adapter(caps.le, caps.central) IN
         /\ pc' = IF ok THEN "start_scan" ELSE "failed"
         /\ ret' = Ret("default_adapter",
                       IF ok THEN "Ok"
                       ELSE IF platformOk THEN "Unsupported" ELSE "PlatformError",
                       0, NoDevice)
    /\ tick' = ~tick
    /\ UNCHANGED <<adapterVars, cb, envVars, log, mainVars, inputVars, deviceVars,
                   stopped, ended>>

\* adapter.start_scan()?, then the input thread is spawned.
MainStartScan ==
    /\ pc = "start_scan"
    /\ \E platformOk \in BOOLEAN :
         /\ start_scan(platformOk)
         /\ pc' = IF platformOk THEN "next_device" ELSE "failed"
         /\ ipc' = IF platformOk THEN "read" ELSE ipc
    /\ tick' = ~tick
    /\ UNCHANGED <<cb, envVars, log, mainVars, lock, sel, deviceVars, stopped, ended>>

\* `while let Ok(ble_device) = adapter.next_device().await`: a device enters
\* the loop body, any Err leaves the loop ("Done scanning").
MainNextDevice ==
    /\ NextDeviceStep("body", "done")
    /\ seen' = IF pc' = "body" THEN Append(seen, ret'.dev) ELSE seen
    /\ UNCHANGED <<cb, envVars, addr_set, device_vec, counter, inputVars, deviceVars, stopped>>

\* A filter that accepts any device that carries service data.
IsFastPair_AnyServiceData(dev) == Len(dev.sd) > 0

\* `for service_data in ble_device.get_service_data()`: whether some record
\* has the Fast Pair UUID (the loop breaks at the first one).
IsFastPair(dev) == \E i \in 1..Len(dev.sd) : dev.sd[i] = FastPairUuid

\* An insert that reports every address as new.
HashSet_insert_AlwaysNew(set, addr) == TRUE

\* A push at the front of the vector.
Vec_push_Front(vec, dev) == <<dev>> \o vec

\* addr_set.insert(addr): true when the address was not in the set.
HashSet_insert(set, addr) == addr \notin set

\* Vec::push
Vec_push(vec, dev) == Append(vec, dev)

\* The loop body up to device_vec.lock().await: `nameOk` is whether
\* ble_device.name() succeeds (`?` ends `run` with the error otherwise).
MainBody ==
    /\ pc = "body"
    /\ LET dev == ret.dev IN
       IF ~IsFastPair(dev)
       THEN /\ pc' = "next_device"
            /\ UNCHANGED addr_set
       ELSE \E nameOk \in BOOLEAN :
            IF ~nameOk
            THEN /\ pc' = "failed"
                 /\ UNCHANGED addr_set
            ELSE IF ~HashSet_insert(addr_set, dev.addr)
            THEN /\ pc' = "next_device"
                 /\ UNCHANGED addr_set
            ELSE /\ addr_set' = addr_set \cup {dev.addr}
                 /\ pc' = "push"
    /\ UNCHANGED <<adapterVars, cb, envVars, ret, tick, log, device_vec, counter, seen,
                   inputVars, deviceVars, stopped, ended>>

\* device_vec.lock().await.push(ble_device); counter += 1;  (counter is a
\* u32; it stays below MaxEvents here, far from the width.)
MainPush ==
    /\ pc = "push"
    /\ lock = "free"
    /\ device_vec' = Vec_push(device_vec, ret.dev)
    /\ counter' = counter + 1
    /\ pc' = "next_device"
    /\ UNCHANGED <<adapterVars, cb, envVars, ret, tick, log, addr_set, seen,
                   inputVars, deviceVars, stopped, ended>>

\* ------------------------------------------------------------------------
\* main.rs: the input thread (get_user_input)
\* ------------------------------------------------------------------------

\* One iteration up to the pairing attempt.  read_line and parse: a line
\* that is not a number (val -1) prints a message and reads again.  Otherwise
\* the lock is acquired (only this thread ever holds it across an await, so
\* it is free) and index_to_device.get(val) evaluated: None prints a message
\* and the guard is dropped at the end of the iteration; Some goes on to the
\* pairing attempt with the guard still alive.
InputSelect ==
    /\ ipc = "read"
    /\ lock = "free"
    /\ \E val \in -1..Len(device_vec) :
         IF val >= 0 /\ val < Len(device_vec)
         THEN /\ lock' = "input"
              /\ ipc' = "pairing"
              /\ sel' = val
         ELSE UNCHANGED <<lock, ipc, sel>>
    /\ UNCHANGED <<pc, adapterVars, cb, envVars, ret, tick, log, mainVars,
                   deviceVars, stopped, ended>>

\* The pairing attempt ends: "fatal" is a `?` (address conversion or
\* new_classic_device) that ends the thread; otherwise the result of pair()
\* is printed and the loop reads again.  The guard is dropped either way.
InputPairDone ==
    /\ ipc = "pairing"
    /\ \E outcome \in {"success", "error", "fatal"} :
         ipc' = IF outcome = "fatal" THEN "dead" ELSE "read"
    /\ lock' = "free"
    /\ sel' = 0
    /\ UNCHANGED <<pc, adapterVars, cb, envVars, ret, tick, log, mainVars,
                   deviceVars, stopped, ended>>

\* ------------------------------------------------------------------------
\* The pairing attempt in detail (main.rs 51-75, ClassicDevice::pair)
\* ------------------------------------------------------------------------

\* DevicePairingKinds passed to PairAsync: the kinds of challenge the
\* platform may raise.
RequestedKinds == {"ConfirmOnly", "ProvidePin", "ConfirmPinMatch", "DisplayPin"}

\* What the PairingRequested handler may be invoked with: a challenge of a
\* requested kind, one whose PairingKind() cannot be read ("Error"), or no
\* event arguments at all ("NoArgs").
Challenges == RequestedKinds \cup {"Error", "NoArgs"}

\* DevicePairingResultStatus values (two successes, two of the failures).
Statuses == {"Paired", "AlreadyPaired", "RejectedByHandler", "Failed"}

\* TryFrom<BleAddress> for ClassicAddress: a public address is the Classic
\* address, a random one cannot be converted.
ClassicAddress_try_from(ble) ==
    IF ble.kind = "Public"
    THEN [ok |-> TRUE, value |-> ble.value]
    ELSE [ok |-> FALSE, value |-> 0]

\* `type Device = BleDevice` of BleAdapter: what the catalogue holds.
AdapterDevice == "Ble"

\* An address() that reports every address as a Classic one.
address_AlwaysClassic(variant, dev) == [tag |-> "Classic", addr |-> dev.addr]

\* Device::address: Address::Ble(addr) or Address::Classic(addr).
address(variant, dev) == [tag |-> variant, addr |-> dev.addr]

\* A handler that accepts a challenge of any kind.
PairingRequested_AcceptsAll(kind) == kind \in RequestedKinds

\* The PairingRequested handler: whether it calls event_args.Accept().
PairingRequested(kind) == kind = "ConfirmOnly"

\* A pair() that does not look at IsPaired().
PairEntryDecision_SkipsIsPaired(isPaired, canPair) ==
    IF ~canPair THEN "CannotPair" ELSE "Request"

\* The branches of pair() on pair_info.IsPaired() and pair_info.CanPair().
PairEntryDecision(isPaired, canPair) ==
    IF isPaired THEN "AlreadyPaired"
    ELSE IF ~canPair THEN "CannotPair"
    ELSE "Request"

\* A match on the status that takes Paired alone as a success.
PairResult_PairedOnly(status) ==
    IF status = "Paired"
    THEN [res |-> "Ok", cause |-> status]
    ELSE [res |-> "Err", cause |-> status]

\* `match status`: Ok(()) for Paired and AlreadyPaired, otherwise
\* Err("Error while pairing: {status}").
PairResult(status) ==
    IF status \in {"Paired", "AlreadyPaired"}
    THEN [res |-> "Ok", cause |-> status]
    ELSE [res |-> "Err", cause |-> status]

\* What get_user_input prints for the result of pair().
Report(res) == IF res = "Ok" THEN "Pairing success!" ELSE "Error"

\* The record of an attempt that ended: the result of pair() (or of the `?`
\* before it), its cause, the status the platform gave, what was printed,
\* and what pair() had done by then.
Verdict(res, cause, status, printed, p) ==
    [res |-> res, cause |-> cause, status |-> status, printed |-> printed,
     handler |-> p.handler, requests |-> p.requests, asked |-> p.asked]

\* A pair() that registers its handler only after it has issued the
\* pairing request.
NextPairCall_RequestFirst(p) ==
    IF p.requests = 0 THEN "PairAsync"
    ELSE IF ~p.handler THEN "PairingRequested"
    ELSE "await"

\* The platform call pair() makes next on its third branch: it registers
\* the handler, then issues the request, then awaits it.
NextPairCall(p) ==
    IF ~p.handler THEN "PairingRequested"
    ELSE IF p.requests = 0 THEN "PairAsync"
    ELSE "await"

\* An input loop that calls pair() again by itself when a pairing request
\* has failed.
EndAttempt_RetriesOnError(res, cause, status, p) ==
    /\ verdict' = Verdict(res, cause, status, Report(res), p)
    /\ IF res = "Err" /\ p.requests > 0
       THEN /\ pair' = [NoPairing EXCEPT !.addr = p.addr]
            /\ ipc' = "pair_entry"
            /\ UNCHANGED <<lock, sel>>
       ELSE /\ pair' = NoPairing
            /\ ipc' = "read"
            /\ lock' = "free"
            /\ sel' = 0

\* The iteration of get_user_input's loop ends after pair() returned: the
\* result is printed, the guard dropped, and the loop reads again.
EndAttempt(res, cause, status, p) ==
    /\ verdict' = Verdict(res, cause, status, Report(res), p)
    /\ pair' = NoPairing
    /\ ipc' = "read"
    /\ lock' = "free"
    /\ sel' = 0

\* main.rs 51-67: the selected device's address is matched (the Classic
\* arm is unreachable!(), a panic), converted, and the Classic device
\* materialized (`newOk`); either `?` returns the error from
\* get_user_input, which ends the input thread with nothing printed.
InputNewClassic ==
    /\ ipc = "pairing"
    /\ LET a == address(AdapterDevice, device_vec[sel + 1])
           conv == ClassicAddress_try_from(a.addr) IN
       \E newOk \in BOOLEAN :
         IF a.tag = "Classic"
         THEN /\ ipc' = "panicked"
              /\ lock' = "free"
              /\ sel' = 0
              /\ UNCHANGED <<verdict, pair>>
         ELSE IF conv.ok /\ newOk
         THEN /\ pair' = [NoPairing EXCEPT !.addr = conv.value]
              /\ ipc' = "pair_entry"
              /\ UNCHANGED <<verdict, lock, sel>>
         ELSE /\ verdict' = Verdict("Err",
                                    IF conv.ok THEN "new_device_error"
                                    ELSE "conversion_error",
                                    "none", "none", NoPairing)
              /\ pair' = NoPairing
              /\ ipc' = "dead"
              /\ lock' = "free"
              /\ sel' = 0
    /\ UNCHANGED <<pc, adapterVars, cb, envVars, ret, tick, log, mainVars,
                   bonded, arg, stopped, ended>>

\* pair() from its entry to the choice of its branch: `infoOk` is whether
\* the pairing information and its getters can be read; the first two
\* branches return, the third goes on to its platform calls.
PairEntry ==
    /\ ipc = "pair_entry"
    /\ \E infoOk \in BOOLEAN, canPair \in BOOLEAN :
         LET d == PairEntryDecision(pair.addr \in bonded, canPair) IN
         IF ~infoOk
         THEN EndAttempt("Err", "info_error", "none", pair)
         ELSE IF d = "AlreadyPaired"
         THEN EndAttempt("Ok", "AlreadyPaired", "none", pair)
         ELSE IF d = "CannotPair"
         THEN EndAttempt("Ok", "CannotPair", "none", pair)
         ELSE /\ ipc' = "pair_calls"
              /\ UNCHANGED <<pair, verdict, lock, sel>>
    /\ UNCHANGED <<pc, adapterVars, cb, envVars, ret, tick, log, mainVars,
                   bonded, arg, stopped, ended>>

\* The third branch of pair(), one platform call at a time:
\* Custom()/PairingRequested(handler), then PairAsync(kinds), each of which
\* `?` returns from when it fails (`callOk`); after them pair() is at
\* `.await`.
PairCall ==
    /\ ipc = "pair_calls"
    /\ \E callOk \in BOOLEAN :
         LET call == NextPairCall(pair)
             after == IF call = "PairingRequested"
                      THEN [pair EXCEPT !.handler = TRUE]
                      ELSE [pair EXCEPT !.requests = @ + 1] IN
         /\ call # "await"
         /\ IF ~callOk
            THEN EndAttempt("Err",
                            IF call = "PairingRequested" THEN "register_error"
                            ELSE "request_error",
                            "none", pair)
            ELSE /\ pair' = after
                 /\ ipc' = IF NextPairCall(after) = "await"
                           THEN "pair_await" ELSE "pair_calls"
                 /\ UNCHANGED <<verdict, lock, sel>>
    /\ UNCHANGED <<pc, adapterVars, cb, envVars, ret, tick, log, mainVars,
                   bonded, arg, stopped, ended>>

\* The platform raises a challenge of a pairing request that has been
\* issued: the registered handler runs on a platform thread and accepts it
\* or returns; with no handler registered the challenge goes unhandled.
Challenge ==
    /\ ipc \in {"pair_calls", "pair_await"}
    /\ pair.requests > 0
    /\ Len(pair.asked) < MaxChallenges
    /\ \E kind \in Challenges :
         pair' = [pair EXCEPT !.asked =
                    Append(@, [kind |-> kind,
                               handled |-> pair.handler,
                               accepted |-> pair.handler /\ PairingRequested(kind)])]
    /\ UNCHANGED <<pc, adapterVars, cb, envVars, ret, tick, log, mainVars,
                   inputVars, bonded, verdict, arg, stopped, ended>>

\* The statuses the platform may complete a request with: Paired only
\* when it raised a challenge and every challenge was accepted,
\* AlreadyPaired when the device got paired without a challenge of this
\* request, a failure at any time.
PlatformStatuses(asked) ==
    IF asked = <<>> THEN {"AlreadyPaired", "Failed"}
    ELSE IF \A i \in 1..Len(asked) : asked[i].accepted THEN {"Paired", "Failed"}
    ELSE {"RejectedByHandler", "Failed"}

\* The pairing request completes: `.await?` and `res.Status()?` succeed
\* (`awaitOk`) or return their error, then the status is matched.
PairComplete ==
    /\ ipc = "pair_await"
    /\ \E awaitOk \in BOOLEAN, status \in PlatformStatuses(pair.asked) :
         /\ bonded' = IF status \in {"Paired", "AlreadyPaired"}
                      THEN bonded \cup {pair.addr} ELSE bonded
         /\ IF awaitOk
            THEN EndAttempt(PairResult(status).res, PairResult(status).cause,
                            status, pair)
            ELSE EndAttempt("Err", "await_error", status, pair)
    /\ UNCHANGED <<pc, adapterVars, cb, envVars, ret, tick, log, mainVars,
                   arg, stopped, ended>>

\* ------------------------------------------------------------------------
\* An arbitrary caller of the Adapter trait
\* ------------------------------------------------------------------------

ApiStartScan ==
    /\ pc = "caller"
    /\ nextScan < MaxScans
    /\ \E platformOk \in BOOLEAN : start_scan(platformOk)
    /\ tick' = ~tick
    /\ UNCHANGED <<pc, cb, envVars, log, mainVars, inputVars, deviceVars, stopped, ended>>

ApiStopScan ==
    /\ pc = "caller"
    /\ \E stopOk \in BOOLEAN : stop_scan(stopOk)
    /\ tick' = ~tick
    /\ UNCHANGED <<pc, cb, envVars, log, mainVars, inputVars, deviceVars, ended>>

\* The caller calls next_device() and awaits it.
ApiNextDevice ==
    /\ pc = "caller"
    /\ pc' = "next_device"
    /\ UNCHANGED <<adapterVars, cb, envVars, ret, tick, log, mainVars, inputVars, deviceVars,
                   stopped, ended>>

ApiNextDeviceStep ==
    /\ NextDeviceStep("caller", "caller")
    /\ UNCHANGED <<cb, envVars, mainVars, inputVars, deviceVars, stopped>>

\* The caller drops the pending next_device future at its await point.
ApiCancel ==
    /\ pc = "next_device"
    /\ listener # 0
    /\ StreamNext(listener) = "pending"
    /\ pc' = "caller"
    /\ UNCHANGED <<adapterVars, cb, envVars, ret, tick, log, mainVars, inputVars, deviceVars,
                   stopped, ended>>

\* ------------------------------------------------------------------------
\* A caller of the Device trait and of the address conversion
\* ------------------------------------------------------------------------

\* BluetoothAddressType values: the three named ones and one that is none
\* of them.
AddressTypes == {"Public", "Random", "Unspecified", "Unrecognized"}

\* BleDevice values: devices made from well-formed advertisements.
BleDevices == {BleDevice_new(ev) : ev \in WellFormedEvents}

\* ClassicDevice values (no service data field, no advertisement).
ClassicDevices ==
    [addr : [value : 1..MaxAddr, kind : {"Classic"}], sd : {<<>>}, adv : {"None"}]

\* Device::get_service_data: the BLE device returns its vector, the Classic
\* device hits unimplemented!() and panics.
get_service_data(variant, dev) ==
    IF variant = "Ble"
    THEN [panic |-> FALSE, sd |-> dev.sd]
    ELSE [panic |-> TRUE, sd |-> <<>>]

\* BleAddressKind::try_from(kind) on the address type the caller holds.
DevTryFromKind ==
    /\ pc = "device_caller"
    /\ LET r == BleAddressKind_try_from(arg.kind) IN
       ret' = Ret("BleAddressKind::try_from", IF r.ok THEN r.kind ELSE "Err",
                  0, NoDevice)
    /\ tick' = ~tick
    /\ UNCHANGED <<pc, adapterVars, cb, envVars, log, mainVars, inputVars, deviceVars,
                   stopped, ended>>

\* device.get_service_data() on the device the caller holds.
DevGetServiceData ==
    /\ pc = "device_caller"
    /\ LET r == get_service_data(arg.variant, arg.dev) IN
       IF r.panic
       THEN /\ pc' = "panicked"
            /\ ret' = Ret("get_service_data", "panic", 0, NoDevice)
       ELSE /\ pc' = pc
            /\ ret' = Ret("get_service_data", "Ok", 0, [NoDevice EXCEPT !.sd = r.sd])
    /\ tick' = ~tick
    /\ UNCHANGED <<adapterVars, cb, envVars, log, mainVars, inputVars, deviceVars,
                   stopped, ended>>

\* device.address() on the device the caller holds.
DevAddress ==
    /\ pc = "device_caller"
    /\ LET a == address(arg.variant, arg.dev) IN
       ret' = Ret("address", a.tag, 0, [NoDevice EXCEPT !.addr = a.addr])
    /\ tick' = ~tick
    /\ UNCHANGED <<pc, adapterVars, cb, envVars, log, mainVars, inputVars, deviceVars,
                   stopped, ended>>

\* BleDevice::pair: unimplemented!(), a panic.
DevPairBle ==
    /\ pc = "device_caller"
    /\ arg.variant = "Ble"
    /\ pc' = "panicked"
    /\ ret' = Ret("pair", "panic", 0, NoDevice)
    /\ tick' = ~tick
    /\ UNCHANGED <<adapterVars, cb, envVars, log, mainVars, inputVars, deviceVars,
                   stopped, ended>>

\* ------------------------------------------------------------------------
\* Specifications
\* ------------------------------------------------------------------------

Next ==
    \/ MainDefaultAdapter
    \/ MainStartScan
    \/ MainNextDevice
    \/ MainBody
    \/ MainPush
    \/ InputSelect
    \/ InputPairDone
    \/ Received(MaxEvents)
    \/ \E t \in Callbacks : ReceivedSend(t)
    \/ \E w \in Scans : StoppedHandler(w)

Spec == Init /\ [][Next]_vars

NextApi ==
    \/ ApiStartScan
    \/ ApiStopScan
    \/ ApiNextDevice
    \/ ApiNextDeviceStep
    \/ ApiCancel
    \/ Received(MaxApiEvents)
    \/ \E t \in Callbacks : ReceivedSend(t)
    \/ \E w \in Scans : StoppedHandler(w)

SpecApi == InitApi /\ [][NextApi]_vars

\* The devices the discovery loop can have catalogued.
FastPairDevices == {BleDevice_new(ev) : ev \in FastPairEvents}

\* Catalogues of up to MaxCatalogue devices with distinct addresses.
Catalogues ==
    UNION {{c \in [1..n -> FastPairDevices] :
              \A i, j \in 1..n : c[i].addr = c[j].addr => i = j} :
           n \in 0..MaxCatalogue}

\* The program after the scan has started and some devices have been
\* catalogued: the discovery loop is suspended in next_device, the input
\* thread is about to read a line, and some devices may be paired already.
InitPair ==
    /\ device_vec \in Catalogues
    /\ bonded \in SUBSET (1..MaxAddr)
    /\ addr_set = {device_vec[i].addr : i \in 1..Len(device_vec)}
    /\ counter = Len(device_vec)
    /\ seen = device_vec
    /\ pc = "next_device"
    /\ caps = FullCaps
    /\ listener = 1
    /\ nextScan = 1
    /\ wstatus = [w \in Scans |-> IF w = 1 THEN "Started" ELSE "Created"]
    /\ chan = [w \in Scans |-> <<>>]
    /\ parked = [w \in Scans |-> FALSE]
    /\ rx = [w \in Scans |-> IF w = 1 THEN "open" ELSE "none"]
    /\ strong = [w \in Scans |-> w = 1]
    /\ cb = [t \in Callbacks |-> IdleCallback]
    /\ nrecv = Len(device_vec)
    /\ ignored = FALSE
    /\ ret = IF device_vec = <<>>
             THEN Ret("start_scan", "Ok", 1, NoDevice)
             ELSE Ret("next_device", "Device", 1, device_vec[Len(device_vec)])
    /\ tick = FALSE
    /\ log = {}
    /\ lock = "free"
    /\ ipc = "read"
    /\ sel = 0
    /\ pair = NoPairing
    /\ verdict = NoVerdict
    /\ arg = NoArg
    /\ stopped = {}
    /\ ended = {}

NextPair ==
    \/ InputSelect
    \/ InputNewClassic
    \/ PairEntry
    \/ PairCall
    \/ Challenge
    \/ PairComplete

SpecPair == InitPair /\ [][NextPair]_vars

\* A caller that holds an address type read from the platform and a BLE or
\* a Classic device.
InitDev ==
    /\ InitIdle
    /\ pc = "device_caller"
    /\ caps = FullCaps
    /\ \E kind \in AddressTypes :
         \/ \E dev \in BleDevices :
              arg = [kind |-> kind, variant |-> "Ble", dev |-> dev]
         \/ \E dev \in ClassicDevices :
              arg = [kind |-> kind, variant |-> "Classic", dev |-> dev]

NextDev ==
    \/ DevTryFromKind
    \/ DevGetServiceData
    \/ DevAddress
    \/ DevPairBle

SpecDev == InitDev /\ [][NextDev]_vars

\* A consumer that holds an adapter whose start_scan has just returned Ok.
InitStop ==
    /\ pc = "caller"
    /\ caps = FullCaps
    /\ listener = 1
    /\ nextScan = 1
    /\ wstatus = [w \in Scans |-> IF w = 1 THEN "Started" ELSE "Created"]
    /\ chan = [w \in Scans |-> <<>>]
    /\ parked = [w \in Scans |-> FALSE]
    /\ rx = [w \in Scans |-> IF w = 1 THEN "open" ELSE "none"]
    /\ strong = [w \in Scans |-> w = 1]
    /\ cb = [t \in Callbacks |-> IdleCallback]
    /\ nrecv = 0
    /\ ignored = FALSE
    /\ ret = Ret("start_scan", "Ok", 1, NoDevice)
    /\ tick = TRUE
    /\ log = {}
    /\ addr_set = {}
    /\ device_vec = <<>>
    /\ counter = 0
    /\ lock = "free"
    /\ ipc = "unspawned"
    /\ sel = 0
    /\ pair = NoPairing
    /\ bonded = {}
    /\ verdict = NoVerdict
    /\ arg = NoArg
    /\ seen = <<>>
    /\ stopped = {}
    /\ ended = {}

\* The consumer calls next_device again and again and awaits each call to
\* its return, while the platform raises received events and may stop the
\* watcher by itself.
NextStop ==
    \/ ApiNextDevice
    \/ ApiNextDeviceStep
    \/ Received(MaxEvents)
    \/ \E t \in Callbacks : ReceivedSend(t)
    \/ \E w \in Scans : StoppedHandler(w)

\* Scheduling: a received callback that has started runs to its end
\* (try_send does not block); the executor polls next_device again once the
\* channel has woken its task, which a send and the drop of the last sender
\* both do; the consumer goes on calling.  Nothing obliges the platform to
\* raise an event or to stop.
SpecStop ==
    /\ InitStop
    /\ [][NextStop]_vars
    /\ WF_vars(ApiNextDevice)
    /\ WF_vars(ApiNextDeviceStep)
    /\ WF_vars(\E t \in Callbacks : ReceivedSend(t))

\* ------------------------------------------------------------------------
\* Properties
\* ------------------------------------------------------------------------

IsPrefix(a, b) ==
    /\ Len(a) <= Len(b)
    /\ \A i \in 1..Len(a) : a[i] = b[i]

Range(f) == {f[i] : i \in DOMAIN f}

AddrsOf(devs) == [i \in 1..Len(devs) |-> devs[i].addr]

\* The elements of a sequence in the order of their first occurrence.
RECURSIVE FirstSeen(_)
FirstSeen(q) ==
    IF q = <<>> THEN <<>>
    ELSE LET front == FirstSeen(SubSeq(q, 1, Len(q) - 1))
             last == q[Len(q)] IN
         IF last \in Range(front) THEN front ELSE Append(front, last)

HasFastPairRecord(dev) == \E i \in 1..Len(dev.sd) : dev.sd[i] = FastPairUuid

\* The new return of an Adapter call in this step.
Returned(op) == tick' # tick /\ ret'.op = op

\* C1: the catalogue holds each address at most once, and its addresses are
\* the Fast Pair addresses handed to the discovery loop, in the order of
\* their first occurrence: a prefix of them at any time, all of them at
\* every iteration boundary of the loop and when the loop has ended.
C1_CatalogueFirstSeenOrder ==
    LET want == FirstSeen(AddrsOf(SelectSeq(seen, HasFastPairRecord))) IN
    /\ \A i, j \in 1..Len(device_vec) :
         device_vec[i].addr = device_vec[j].addr => i = j
    /\ IsPrefix(AddrsOf(device_vec), want)
    /\ pc \in {"next_device", "done"} => AddrsOf(device_vec) = want

\* Events for A, B, A have been processed and the catalogue is [A, B].
C1_Witness ==
    /\ pc = "next_device"
    /\ Len(seen) = 3
    /\ \A i \in 1..3 : HasFastPairRecord(seen[i])
    /\ seen[1].addr # seen[2].addr
    /\ seen[3].addr = seen[1].addr
    /\ AddrsOf(device_vec) = <<seen[1].addr, seen[2].addr>>

\* C2: once stop_scan has returned for a scan, no call of next_device
\* returns a device of that scan, and nothing is queued for that scan any
\* more, whatever received events the platform still raises.
C2_NoDeviceAfterStop ==
    [][ /\ (Returned("next_device") /\ ret'.res = "Device") => ret'.scan \notin stopped
        /\ \A w \in stopped : chan'[w] = <<>> ]_vars

\* stop_scan has returned, the stopped callback has run, a received event
\* raised after it has been ignored, and next_device has been called since.
C2_Witness ==
    /\ ret.op = "next_device"
    /\ ret.res = "NotScanning"
    /\ ignored
    /\ \E w \in stopped : wstatus[w] = "Stopped"

\* C3: once next_device has reported the end of a scan's sequence, no later
\* call returns a device of that scan.
C3_NoRevivalAfterEnd ==
    [][ (Returned("next_device") /\ ret'.res = "Device") => ret'.scan \notin ended ]_vars

\* next_device is called again on a scan whose end it has reported.
C3_Witness ==
    /\ listener # 0
    /\ listener \in ended
    /\ pc = "next_device"
    /\ ret.res = "StreamNone"

\* C4 as claimed: the producer side is closed exactly when the stopped
\* callback has run.
C4_ClosedIffStopped ==
    \A w \in 1..nextScan : ProducerClosed(w) <=> wstatus[w] = "Stopped"

\* Some received callback holds an upgraded producer handle of watcher w.
InFlight(w) == \E t \in Callbacks : cb[t].pc = "upgraded" /\ cb[t].w = w

\* C4 amended: the producer side is closed exactly when the stopped callback
\* has run and no received callback that upgraded before it is still in
\* flight; once closed it stays closed and nothing more is queued.
C4_ClosedIffStoppedAndQuiescent ==
    /\ [](\A w \in 1..nextScan :
            ProducerClosed(w) <=> (wstatus[w] = "Stopped" /\ ~InFlight(w)))
    /\ [][\A w \in 1..nextScan :
            ProducerClosed(w) =>
              /\ ProducerClosed(w)'
              /\ Len(chan'[w]) <= Len(chan[w])]_vars

\* The stopped callback has run while a received callback that upgraded
\* before it still holds its handle.
C4_Witness ==
    \E t \in Callbacks : cb[t].pc = "upgraded" /\ wstatus[cb[t].w] = "Stopped"

\* C5: start_scan on an adapter that has a listener does not succeed: it
\* creates no watcher and leaves the listener in place.
C5_AlreadyScanning ==
    [][ (Returned("start_scan") /\ listener # 0) =>
          /\ ret'.res # "Ok"
          /\ listener' = listener
          /\ nextScan' = nextScan ]_vars

\* C6: stop_scan on an adapter without a listener returns the "hasn't
\* started" error and changes nothing of the adapter.
C6_NotScanning ==
    [][ (Returned("stop_scan") /\ listener = 0) =>
          /\ ret'.res = "NotScanning"
          /\ UNCHANGED adapterVars ]_vars

\* stop_scan has failed so on an adapter whose scan had been stopped before.
C6_Witness ==
    /\ ret.op = "stop_scan"
    /\ ret.res = "NotScanning"
    /\ stopped # {}

\* C7: at most ChannelBuffer + 1 events are queued; a received callback that
\* holds the sender can always complete its try_send; when the queue is full
\* the callback returns with the queue as it was and the failure logged.
C7_BoundedBuffer ==
    /\ [](\A w \in Scans : Len(chan[w]) <= ChannelBuffer + 1)
    /\ [](\A t \in Callbacks : cb[t].pc = "upgraded" => ENABLED ReceivedSend(t))
    /\ [][\A t \in Callbacks :
            (/\ cb[t].pc = "upgraded"
             /\ cb'[t].pc = "idle"
             /\ Len(chan[cb[t].w]) = ChannelBuffer + 1)
            => (chan' = chan /\ "send_error_full" \in log')]_vars

\* An event has been dropped on a full queue, which is still full.
C7_Witness ==
    /\ "send_error_full" \in log
    /\ \E w \in Scans : Len(chan[w]) = ChannelBuffer + 1

\* C8: the discovery loop never ends because of a malformed event.
C8_MalformedNeverEndsDiscovery ==
    pc = "done" => ret.res # "EventError"

\* C9: every catalogued device comes from an advertisement that is not
\* non-connectable-undirected and has a service data record 0x2CFE.
C9_OnlyFastPairCatalogued ==
    \A i \in 1..Len(device_vec) :
      /\ device_vec[i].adv # "NonConnectableUndirected"
      /\ \E j \in 1..Len(device_vec[i].sd) : device_vec[i].sd[j] = FastPairUuid

\* A device is catalogued and a device with other or no service data has
\* been through the loop.
C9_Witness ==
    /\ Len(device_vec) >= 1
    /\ \E i \in 1..Len(seen) : FastPairUuid \notin Range(seen[i].sd)
    /\ \E i \in 1..Len(seen) : seen[i].sd = <<>>

\* C10: in every step the catalogue is a prefix of the next catalogue.
C10_AppendOnly ==
    [][IsPrefix(device_vec, device_vec')]_vars

\* The catalogue has two devices and the input thread has looked one up.
C10_Witness ==
    /\ Len(device_vec) >= 2
    /\ ipc = "pairing"

\* The input thread is inside a pairing attempt (from the index lookup that
\* found a device to the end of that iteration of its loop).
PairingInFlight == ipc \in {"pairing", "pair_entry", "pair_calls", "pair_await"}

\* C15: while a pairing attempt is in flight on the input thread the
\* catalogue's mutex is free, so a discovery loop that has a new device to
\* append can acquire it and push.
C15_LockFreeDuringPairing ==
    PairingInFlight =>
      /\ lock = "free"
      /\ pc = "push" => ENABLED MainPush

\* C17: a failure of the name lookup in the loop body does not end `run`.
C17_NameFailureKeepsDiscovering ==
    [][pc = "body" => pc' # "failed"]_vars

\* C18: on an adapter without Bluetooth LE or without the central role,
\* construction returns an error, `run` ends there, no watcher is created,
\* the input thread is not spawned and the catalogue stays empty.
C18_UnsupportedAdapterNeverScans ==
    (~caps.le \/ ~caps.central) =>
      /\ pc \in {"default_adapter", "failed"}
      /\ pc = "failed" => (ret.op = "default_adapter" /\ ret.res # "Ok")
      /\ nextScan = 0
      /\ listener = 0
      /\ ipc = "unspawned"
      /\ device_vec = <<>>

\* Construction has failed on an adapter that has Bluetooth LE but not the
\* central role.
C18_Witness ==
    /\ caps.le
    /\ ~caps.central
    /\ pc = "failed"
    /\ ret.res = "Unsupported"

\* The pairing request of the attempt in flight completes in this step.
RequestCompletes == ipc = "pair_await" /\ ipc' # "pair_await"

\* pair() returns in this step straight from its entry.
EntryReturns == ipc = "pair_entry" /\ ipc' = "read"

\* C11: the handler accepts a challenge exactly when its kind is
\* ConfirmOnly; an attempt in which a challenge of another requested kind was
\* raised ends with pair() returning an error, which the input thread
\* prints before it reads the next selection.
C11_OnlyConfirmOnlyAccepted ==
    [][ /\ \A i \in 1..Len(pair'.asked) :
             pair'.asked[i].accepted <=> pair'.asked[i].kind = "ConfirmOnly"
        /\ (/\ RequestCompletes
            /\ \E i \in 1..Len(pair.asked) :
                 pair.asked[i].kind \in RequestedKinds \ {"ConfirmOnly"})
           => /\ verdict'.res = "Err"
              /\ verdict'.printed = "Error"
              /\ ipc' = "read" ]_vars

\* An attempt ended as rejected by the handler after a ProvidePin challenge
\* that was not accepted.
C11_Witness ==
    /\ verdict.res = "Err"
    /\ verdict.cause = "RejectedByHandler"
    /\ Len(verdict.asked) >= 1
    /\ verdict.asked[1].kind = "ProvidePin"
    /\ ~verdict.asked[1].accepted

\* C12: when the request completes with a status, pair() returns Ok exactly
\* when the status is Paired or AlreadyPaired, and otherwise an error that
\* carries the status.
C12_SuccessIffPaired ==
    [][ (RequestCompletes /\ verdict'.cause # "await_error") =>
          /\ verdict'.res = "Ok" <=> verdict'.status \in {"Paired", "AlreadyPaired"}
          /\ verdict'.res = "Err" =>
                (verdict'.cause = verdict'.status /\ verdict'.status \in Statuses) ]_vars

\* A request completed with AlreadyPaired and pair() returned Ok.
C12_Witness ==
    /\ verdict.requests = 1
    /\ verdict.status = "AlreadyPaired"
    /\ verdict.res = "Ok"

\* C13: when pair() is entered for a device that reports IsPaired (and the
\* pairing information can be read), it returns Ok at once as already
\* paired, with no handler registered and no pairing request issued.
C13_AlreadyPairedShortCircuit ==
    [][ (/\ ipc = "pair_entry"
         /\ pair.addr \in bonded
         /\ ~(ipc' = "read" /\ verdict'.cause = "info_error"))
        => /\ ipc' = "read"
           /\ verdict'.res = "Ok"
           /\ verdict'.cause = "AlreadyPaired"
           /\ ~verdict'.handler
           /\ verdict'.requests = 0
           /\ verdict'.asked = <<>> ]_vars

\* An attempt on an already paired device has returned from the entry.
C13_Witness ==
    /\ verdict.cause = "AlreadyPaired"
    /\ verdict.res = "Ok"
    /\ verdict.requests = 0
    /\ ipc = "read"

\* C14: an attempt on a device that is not paired and reports CanPair false
\* ends with an error, and the input thread does not print a success.
C14_CannotPairIsFailure ==
    verdict.cause = "CannotPair" =>
      /\ verdict.res = "Err"
      /\ verdict.printed # "Pairing success!"

\* C16: no pairing attempt ends the input thread, and the catalogue is as
\* it was when the attempt ends.
C16_AttemptErrorAbsorbed ==
    [][ PairingInFlight => (ipc' # "dead" /\ device_vec' = device_vec) ]_vars

\* C19: get_service_data on a Classic device returns an "unsupported"
\* result to its caller, which goes on running.
C19_ClassicServiceDataUnsupported ==
    (ret.op = "get_service_data" /\ arg.variant = "Classic") =>
      /\ ret.res = "Unsupported"
      /\ pc # "panicked"

\* C20: the conversion returns Public for Public, Random for Random, and
\* an error for Unspecified and for any other value.
C20_KindNeverDefaulted ==
    ret.op = "BleAddressKind::try_from" =>
      /\ arg.kind = "Public" => ret.res = "Public"
      /\ arg.kind = "Random" => ret.res = "Random"
      /\ arg.kind \notin {"Public", "Random"} => ret.res = "Err"

\* The conversion has been applied to a value that is none of the three
\* named ones and has returned an error.
C20_Witness ==
    /\ ret.op = "BleAddressKind::try_from"
    /\ arg.kind = "Unrecognized"
    /\ ret.res = "Err"

\* next_device takes a well-formed connectable event off the queue in this
\* step and does not return a device for it.
MaterializeFails ==
    /\ pc = "next_device"
    /\ listener # 0
    /\ chan[listener] # <<>>
    /\ Head(chan[listener]) \in WellFormedEvents
    /\ chan'[listener] = Tail(chan[listener])
    /\ pc' # "body"

\* C21: when BleDevice::new fails for a candidate, the failure is logged,
\* next_device returns nothing for it and stays in its loop, waiting for the
\* next event; the discovery loop does not end.
C21_MaterializeFailureSkipped ==
    [][ MaterializeFails =>
          /\ "create_device_failed" \in log'
          /\ pc' = "next_device"
          /\ ret' = ret
          /\ tick' = tick ]_vars

\* After a failed materialization, next_device has handed its first device
\* to the discovery loop.
C21_Witness ==
    /\ "create_device_failed" \in log
    /\ pc = "body"
    /\ Len(seen) = 1

\* C25: at every iteration boundary of the discovery loop, and when it has
\* ended, the counter, the length of the catalogue and the size of the
\* address set are equal.
C25_CounterIsCatalogueLength ==
    pc \in {"next_device", "done"} =>
      /\ counter = Len(device_vec)
      /\ counter = Cardinality(addr_set)

\* Two devices are catalogued and a third advertisement, of an address
\* already seen, has been through the loop.
C25_Witness ==
    /\ pc = "next_device"
    /\ counter = 2
    /\ Len(seen) = 3
    /\ \A i \in 1..3 : HasFastPairRecord(seen[i])

\* C22: a call of pair() issues at most one pairing request; when the
\* request completes, whatever its result, the attempt ends with one
\* outcome recorded and the input thread goes back to reading; pair() is
\* entered only after a selection, never from an attempt that has ended.
C22_OneOutcomeNoRetry ==
    [][ /\ pair'.requests <= 1
        /\ verdict'.requests <= 1
        /\ pair'.requests > pair.requests => ipc = "pair_calls"
        /\ RequestCompletes => (ipc' = "read" /\ pair' = NoPairing)
        /\ (ipc' = "pair_entry" /\ ipc # "pair_entry") => ipc = "pairing"
        /\ (ipc' = "pairing" /\ ipc # "pairing") => ipc = "read"
        /\ (PairingInFlight /\ ~PairingInFlight') =>
              (verdict'.res \in {"Ok", "Err"} /\ ipc' \in {"read", "dead"})
        /\ verdict' # verdict => (PairingInFlight /\ ~PairingInFlight') ]_vars

\* An attempt whose request failed has ended and the input thread is
\* reading the next selection.
C22_Witness ==
    /\ verdict.res = "Err"
    /\ verdict.requests = 1
    /\ verdict.cause \in Statuses
    /\ ipc = "read"
    /\ pair = NoPairing

\* C23: a pairing request is only ever in flight with the handler
\* registered, so every challenge is delivered to the handler; the handler
\* runs and returns while the request is still awaited, and it can run
\* whenever the platform raises a challenge, before the request completes.
C23_HandlerBeforeRequest ==
    /\ [](pair.requests > 0 => pair.handler)
    /\ [](\A i \in 1..Len(pair.asked) : pair.asked[i].handled)
    /\ []((ipc = "pair_await" /\ Len(pair.asked) < MaxChallenges) => ENABLED Challenge)
    /\ [][Len(pair'.asked) > Len(pair.asked) =>
            (ipc = "pair_await" /\ ipc' = "pair_await")]_vars

\* The handler has run for a challenge and the request is still awaited.
C23_Witness ==
    /\ ipc = "pair_await"
    /\ pair.handler
    /\ Len(pair.asked) = 1
    /\ pair.asked[1].handled

\* C26: every catalogued device reports a BLE address (public or random),
\* and the input thread never takes the arm for a Classic address.
C26_CatalogueAddressesAreBle ==
    /\ \A i \in 1..Len(device_vec) :
         /\ address(AdapterDevice, device_vec[i]).tag = "Ble"
         /\ device_vec[i].addr.kind \in {"Public", "Random"}
    /\ ipc # "panicked"

\* The second device of the catalogue has been selected and its address
\* has gone through the match and the conversion.
C26_Witness ==
    /\ ipc = "pair_entry"
    /\ sel = 1
    /\ Len(device_vec) = 2

\* The consumer is in next_device on a scan whose stopped callback has run.
AwaitingStoppedScan ==
    /\ pc = "next_device"
    /\ listener # 0
    /\ wstatus[listener] = "Stopped"

\* C24: a consumer that is in next_device when the stopped callback has
\* run is eventually resumed and eventually gets the end of the sequence;
\* the end is reported only when the queue has been drained.
C24_StoppedConsumerResumes ==
    /\ AwaitingStoppedScan ~> (pc = "caller")
    /\ AwaitingStoppedScan ~>
         (pc = "caller" /\ ret.res = "StreamNone" /\ listener \in ended)
    /\ [][(Returned("next_device") /\ ret'.res = "StreamNone") =>
            chan[ret'.scan] = <<>>]_vars

\* The consumer is suspended in next_device, the stopped callback has run,
\* and a received callback that upgraded before it has not returned yet.
C24_Witness ==
    /\ AwaitingStoppedScan
    /\ StreamNext(listener) = "pending"
    /\ InFlight(listener)

====
